---- MODULE Spec2Model ----
(***************************************************************************)
(* Model of the ndt7 clients of m-lab/ndt7-clients.                        *)
(*                                                                         *)
(*  - sink.Writer: the goroutine that writes measurement envelopes on the  *)
(*    websocket connection, together with the producer that feeds its      *)
(*    unbuffered input channel and the consumer of its unbuffered output   *)
(*    channel.                                                             *)
(*  - client.Client.Download / Upload: dial, the stages they start, the    *)
(*    deferred close of the connection.                                    *)
(*  - cmd/ndt7-client: realmain and runSubtest, the emitter callbacks they *)
(*    call and the exit code.                                              *)
(*  - web/libndt7.js: the message handler installed by measure.            *)
(***************************************************************************)
EXTENDS Integers, Sequences, FiniteSets, TLC

\* ------------------------------------------------------------------------
\* Bounds
\* ------------------------------------------------------------------------

\* Longest sequence of envelopes the producer sends on input.
MaxInput == 4

\* ------------------------------------------------------------------------
\* Values
\* ------------------------------------------------------------------------

\* Go's nil (absent error, absent payload).
Nil == "nil"

\* websocket.TextMessage and websocket.BinaryMessage (gorilla/websocket).
TextMessage == 1
BinaryMessage == 2

\* Serialized measurements a MeasureResult may carry.
Payloads == {"m1", "m2"}

\* Errors an upstream stage may put in a MeasureResult.
UpstreamErrs == {"eUp1", "eUp2"}

\* The error conn.WriteMessage returns when it fails.
WriteErr == "eWrite"

\* MeasureResult: either a measurement or an error, never both.
MeasureResult ==
  [Err : {Nil}, Measurement : Payloads] \cup [Err : UpstreamErrs, Measurement : {Nil}]

NoResult == [Err |-> Nil, Measurement |-> Nil]

RECURSIVE SeqsUpTo(_, _)
\* All sequences over S of length at most n.
SeqsUpTo(S, n) ==
  IF n = 0 THEN {<<>>}
  ELSE LET shorter == SeqsUpTo(S, n - 1)
       IN  shorter \cup {Append(s, x) : s \in {t \in shorter : Len(t) = n - 1}, x \in S}

VARIABLES
  \* --- producer of sink.Writer's input channel
  script,      \* the envelopes the producer sends, in order
  sentIdx,     \* number of sends on input that completed
  closes,      \* TRUE when the producer closes input after its last send
  inClosed,    \* input has been closed
  \* --- the sink.Writer goroutine
  wpc,         \* position: "recv" (l.19), "write" (l.24), "send" (l.21/l.27),
               \*           "drain" (l.14), "done" (after close(output))
  mr,          \* the loop variable mr
  pending,     \* the error being sent on output
  cause,       \* why the main loop was left: "none", "eof", "upstream", "write"
  taken,       \* envelopes received by the main loop (l.19)
  drained,     \* envelopes received by the drain loop (l.14)
  writeCalls,  \* conn.WriteMessage calls made: [type, data, ok]
  \* --- the output channel and its consumer
  outItems,    \* errors the consumer received from output
  outClosed,   \* output has been closed
  \* --- the connection
  connFrames,  \* frames that reached the connection: [type, data]
  connOpen     \* FALSE once somebody closed the connection

sinkVars ==
  <<script, sentIdx, closes, inClosed, wpc, mr, pending, cause, taken, drained,
    writeCalls, outItems, outClosed, connFrames, connOpen>>

VARIABLES
  \* --- one run of Client.Download or Client.Upload
  direction,   \* "download" or "upload"
  cpc,         \* position of the call: "idle", "dial", "run", "closing", "returned"
  dialOk,      \* outcome of the dial
  ret,         \* the error the call returns (Nil for nil)
  result,      \* the value of the return expression, before the deferred close
  closeCount,  \* number of conn.Close() calls
  cconn,       \* the connection: "none", "open", "closed"
  \* --- protocol.Reader goroutine
  rpc,         \* "idle", "read", "send", "sendErr", "done"
  framesRead,  \* frames read from the connection
  \* --- the discarding goroutine of Upload (l.82-86)
  dpc,         \* "idle", "range", "done"
  \* --- protocol.Measurer goroutine
  mpc,         \* "idle", "recv", "send", "sendErr", "flush", "drain", "done"
  \* --- protocol.Counterflow
  fpc,         \* "idle", "run", "done"
  ferr,        \* the first error Counterflow saw
  cfWrites,    \* counter-messages written
  \* --- protocol.Writer goroutine (the load writer)
  lpc,         \* "idle", "write", "send", "close", "done"
  loadWrites,  \* load frames written
  \* --- bookkeeping
  stageErrs    \* stages that reported an error before the result was obtained

clientVars ==
  <<direction, cpc, dialOk, ret, result, closeCount, cconn, rpc, framesRead, dpc,
    mpc, fpc, ferr, cfWrites, lpc, loadWrites, stageErrs>>

VARIABLES
  \* --- realmain and runSubtest (cmd/ndt7-client/main.go)
  rmpc,        \* realmain: "callDownload", "inDownload", "callUpload", "inUpload",
               \*           "returned"
  subtest,     \* the subtest argument of the running runSubtest
  spc,         \* runSubtest: "idle", "onStarting", "start", "onError",
               \*             "onConnected", "loop", "onComplete", "returned"
  code,        \* the named result `code` of runSubtest
  events,      \* emitter callbacks that emitted their event: [subtest, key]
  started,     \* subtests for which runSubtest was entered, in order
  startFailed, \* subtests whose start() returned an error
  panicked,    \* subtests in which a panic was recovered
  runFailed,   \* subtests whose channel was closed because the run failed
  delivered,   \* events received from ch by the running subtest
  codes,       \* subtest -> code returned by runSubtest
  exitCode     \* the value realmain returns, Nil before

mainVars ==
  <<rmpc, subtest, spc, code, events, started, startFailed, panicked, runFailed,
    delivered, codes, exitCode>>

VARIABLES
  \* --- measure (web/libndt7.js)
  jsT0,        \* t0, the clock read when measure was called (ms)
  jsTlast,     \* tlast
  jsCount,     \* count
  jsMsgs,      \* number of messages the handler was called for
  jsServer,    \* number of serverMeasurement events emitted
  jsReads,     \* the values of t1 the handler read from the clock, in order
  jsClient     \* the clientMeasurement events emitted:
               \* [elapsed, num_bytes, at], `at` the clock read by the handler

jsVars == <<jsT0, jsTlast, jsCount, jsMsgs, jsServer, jsReads, jsClient>>

vars == <<sinkVars, clientVars, mainVars, jsVars>>

\* No measure is installed.
JsIdle ==
  /\ jsT0 = 0
  /\ jsTlast = 0
  /\ jsCount = 0
  /\ jsMsgs = 0
  /\ jsServer = 0
  /\ jsReads = <<>>
  /\ jsClient = <<>>

\* realmain is not running.
MainIdle ==
  /\ rmpc = "idle"
  /\ subtest = "download"
  /\ spc = "idle"
  /\ code = 0
  /\ events = <<>>
  /\ started = <<>>
  /\ startFailed = {}
  /\ panicked = {}
  /\ runFailed = {}
  /\ delivered = 0
  /\ codes = <<>>
  /\ exitCode = Nil

\* No Client call is in progress.
ClientIdle ==
  /\ direction = "download"
  /\ cpc = "idle"
  /\ dialOk = FALSE
  /\ ret = Nil
  /\ result = Nil
  /\ closeCount = 0
  /\ cconn = "none"
  /\ rpc = "idle"
  /\ framesRead = 0
  /\ dpc = "idle"
  /\ mpc = "idle"
  /\ fpc = "idle"
  /\ ferr = Nil
  /\ cfWrites = 0
  /\ lpc = "idle"
  /\ loadWrites = 0
  /\ stageErrs = {}

\* sink.Writer touches nothing of a Client call.
SinkFrame == UNCHANGED <<clientVars, mainVars, jsVars>>

\* ------------------------------------------------------------------------
\* sink.Writer
\* ------------------------------------------------------------------------

\* State right after sink.Writer returned output and started its goroutine.
SinkInit ==
  /\ script \in SeqsUpTo(MeasureResult, MaxInput)
  /\ closes \in BOOLEAN
  /\ sentIdx = 0
  /\ inClosed = FALSE
  /\ wpc = "recv"
  /\ mr = NoResult
  /\ pending = Nil
  /\ cause = "none"
  /\ taken = <<>>
  /\ drained = <<>>
  /\ writeCalls = <<>>
  /\ outItems = <<>>
  /\ outClosed = FALSE
  /\ connFrames = <<>>
  /\ connOpen = TRUE
  /\ ClientIdle
  /\ MainIdle
  /\ JsIdle

\* l.20: `mr.Err != nil`, the envelope carries an error.
HasErrNever(e) == FALSE

HasErr(e) == e.Err # Nil

\* l.25: `err != nil`, the WriteMessage call failed.
WriteFailedNever(ok) == FALSE

WriteFailed(ok) == ~ok

\* l.24: the message type passed to WriteMessage.
MessageTypeBinary == BinaryMessage

MessageType == TextMessage

\* The producer has an envelope to hand over on the unbuffered input.
SendReady == sentIdx < Len(script) /\ ~inClosed

\* The producer closes input once all its sends completed.
ProducerClose ==
  /\ closes
  /\ sentIdx = Len(script)
  /\ ~inClosed
  /\ inClosed' = TRUE
  /\ UNCHANGED <<script, sentIdx, closes, wpc, mr, pending, cause, taken, drained,
                 writeCalls, outItems, outClosed, connFrames, connOpen>>
  /\ SinkFrame

\* l.19: `for mr := range input` receives one envelope.
WriterRecv ==
  /\ wpc = "recv"
  /\ SendReady
  /\ LET e == script[sentIdx + 1] IN
       /\ sentIdx' = sentIdx + 1
       /\ taken' = Append(taken, e)
       /\ mr' = e
       /\ IF HasErr(e)
            THEN \* l.20-21: about to send mr.Err on output
                 /\ pending' = e.Err
                 /\ cause' = "upstream"
                 /\ wpc' = "send"
            ELSE \* l.24: about to call WriteMessage
                 /\ wpc' = "write"
                 /\ UNCHANGED <<pending, cause>>
  /\ UNCHANGED <<script, closes, inClosed, drained, writeCalls, outItems,
                 outClosed, connFrames, connOpen>>
  /\ SinkFrame

\* At the end of input a nil error is sent on output.
WriterEofSendsNil ==
  /\ wpc = "recv"
  /\ inClosed
  /\ sentIdx = Len(script)
  /\ cause' = "eof"
  /\ outItems' = Append(outItems, Nil)
  /\ wpc' = "drain"
  /\ UNCHANGED <<script, sentIdx, closes, inClosed, mr, pending, taken, drained,
                 writeCalls, outClosed, connFrames, connOpen>>
  /\ SinkFrame

\* l.19: input is closed, the main loop ends and the deferred drain starts.
WriterEof ==
  /\ wpc = "recv"
  /\ inClosed
  /\ sentIdx = Len(script)
  /\ cause' = "eof"
  /\ wpc' = "drain"
  /\ UNCHANGED <<script, sentIdx, closes, inClosed, mr, pending, taken, drained,
                 writeCalls, outItems, outClosed, connFrames, connOpen>>
  /\ SinkFrame

\* l.24-29: conn.WriteMessage(websocket.TextMessage, mr.Measurement); it can
\* succeed only on an open connection.
WriterWrite ==
  /\ wpc = "write"
  /\ \E ok \in BOOLEAN :
       /\ ok => connOpen
       /\ writeCalls' = Append(writeCalls,
                               [type |-> MessageType, data |-> mr.Measurement, ok |-> ok])
       /\ connFrames' = IF ok
                           THEN Append(connFrames,
                                       [type |-> MessageType, data |-> mr.Measurement])
                           ELSE connFrames
       /\ IF WriteFailed(ok)
            THEN \* l.26-28: about to send err on output
                 /\ pending' = WriteErr
                 /\ cause' = "write"
                 /\ wpc' = "send"
            ELSE /\ wpc' = "recv"
                 /\ UNCHANGED <<pending, cause>>
  /\ UNCHANGED <<script, sentIdx, closes, inClosed, mr, taken, drained, outItems,
                 outClosed, connOpen>>
  /\ SinkFrame

\* The error is sent but the return after it is missing: the loop goes on.
WriterSendErrNoReturn ==
  /\ wpc = "send"
  /\ outItems' = Append(outItems, pending)
  /\ wpc' = "recv"
  /\ UNCHANGED <<script, sentIdx, closes, inClosed, mr, pending, cause, taken, drained,
                 writeCalls, outClosed, connFrames, connOpen>>
  /\ SinkFrame

\* The error paths return without the deferred drain: close(output) runs
\* right after the send.
WriterSendErrSkipsDrain ==
  /\ wpc = "send"
  /\ outItems' = Append(outItems, pending)
  /\ outClosed' = TRUE
  /\ wpc' = "done"
  /\ UNCHANGED <<script, sentIdx, closes, inClosed, mr, pending, cause, taken, drained,
                 writeCalls, connFrames, connOpen>>
  /\ SinkFrame

\* l.21 / l.27: `output <- err` completes when the consumer receives it; the
\* return that follows runs the deferred drain.
WriterSendErr ==
  /\ wpc = "send"
  /\ outItems' = Append(outItems, pending)
  /\ wpc' = "drain"
  /\ UNCHANGED <<script, sentIdx, closes, inClosed, mr, pending, cause, taken, drained,
                 writeCalls, outClosed, connFrames, connOpen>>
  /\ SinkFrame

\* The deferred drain closes the connection before draining.
DrainRecvCloses ==
  /\ wpc = "drain"
  /\ SendReady
  /\ sentIdx' = sentIdx + 1
  /\ drained' = Append(drained, script[sentIdx + 1])
  /\ connOpen' = FALSE
  /\ UNCHANGED <<script, closes, inClosed, wpc, mr, pending, cause, taken,
                 writeCalls, outItems, outClosed, connFrames>>
  /\ SinkFrame

\* The drain runs concurrently with the send on output instead of after it.
DrainRecvEarly ==
  /\ wpc \in {"send", "drain"}
  /\ SendReady
  /\ sentIdx' = sentIdx + 1
  /\ drained' = Append(drained, script[sentIdx + 1])
  /\ UNCHANGED <<script, closes, inClosed, wpc, mr, pending, cause, taken,
                 writeCalls, outItems, outClosed, connFrames, connOpen>>
  /\ SinkFrame

\* l.14-16: the deferred `for range input` receives and drops one envelope.
DrainRecv ==
  /\ wpc = "drain"
  /\ SendReady
  /\ sentIdx' = sentIdx + 1
  /\ drained' = Append(drained, script[sentIdx + 1])
  /\ UNCHANGED <<script, closes, inClosed, wpc, mr, pending, cause, taken,
                 writeCalls, outItems, outClosed, connFrames, connOpen>>
  /\ SinkFrame

\* The deferred drain is missing: close(output) runs right at the return.
DrainEofNoDrain ==
  /\ wpc = "drain"
  /\ outClosed' = TRUE
  /\ wpc' = "done"
  /\ UNCHANGED <<script, sentIdx, closes, inClosed, mr, pending, cause, taken, drained,
                 writeCalls, outItems, connFrames, connOpen>>
  /\ SinkFrame

\* l.14, l.11: input is closed, the drain ends and the deferred close(output)
\* runs; the goroutine is over.
DrainEof ==
  /\ wpc = "drain"
  /\ inClosed
  /\ sentIdx = Len(script)
  /\ outClosed' = TRUE
  /\ wpc' = "done"
  /\ UNCHANGED <<script, sentIdx, closes, inClosed, mr, pending, cause, taken, drained,
                 writeCalls, outItems, connFrames, connOpen>>
  /\ SinkFrame

\* The caller of sink.Writer owns the connection and may close it.
CallerClose ==
  /\ connOpen
  /\ connOpen' = FALSE
  /\ UNCHANGED <<script, sentIdx, closes, inClosed, wpc, mr, pending, cause, taken,
                 drained, writeCalls, outItems, outClosed, connFrames>>
  /\ SinkFrame

\* The steps of the sink.Writer goroutine.
WriterStep ==
  \/ WriterRecv
  \/ WriterEof
  \/ WriterWrite
  \/ WriterSendErr
  \/ DrainRecv
  \/ DrainEof

SinkNext ==
  \/ ProducerClose
  \/ WriterRecv
  \/ WriterEof
  \/ WriterWrite
  \/ WriterSendErr
  \/ DrainRecv
  \/ DrainEof
  \/ CallerClose

SinkSpec == SinkInit /\ [][SinkNext]_vars

\* The Go scheduler runs the Writer goroutine whenever it can take a step; the
\* hand-off on output is a step of the Writer and of the consumer of output.
SinkFairSpec == SinkSpec /\ WF_vars(WriterStep)

\* ------------------------------------------------------------------------
\* Properties of sink.Writer
\* ------------------------------------------------------------------------

\* The main loop received an envelope that carries an error.
ErrTaken == \E i \in 1..Len(taken) : taken[i].Err # Nil

\* A WriteMessage call failed.
WriteFailure == \E i \in 1..Len(writeCalls) : ~writeCalls[i].ok

\* Everything the producer sent was received by one of the two loops.
AllConsumed == inClosed /\ sentIdx = Len(script) /\ taken \o drained = script

\* C1: when the Writer receives an envelope with Err set, that envelope is
\* the last one its main loop takes; the error is the only item the consumer
\* ever gets from output; every WriteMessage call was made for an earlier
\* envelope (none is made afterwards); and the goroutine ends only after input
\* was closed and everything sent on it was received.
C1_ErrorEnvelope ==
  \A i \in 1..Len(taken) :
    taken[i].Err # Nil =>
      /\ i = Len(taken)
      /\ wpc \in {"send", "drain", "done"}
      /\ outItems = IF wpc = "send" THEN <<>> ELSE <<taken[i].Err>>
      /\ Len(writeCalls) = i - 1
      /\ Len(drained) = sentIdx - i
      /\ (wpc = "done" => AllConsumed)

\* An error envelope arrived after a write, was forwarded, and later
\* envelopes were discarded until input was closed.
C1_Witness ==
  /\ ErrTaken
  /\ wpc = "done"
  /\ Len(writeCalls) > 0
  /\ Len(drained) > 0

\* C2: at most one error is ever sent on output, and from the moment that
\* error is produced (pending is set) no WriteMessage call is made and no
\* frame reaches the connection.
C2_AtMostOneError ==
  /\ [](Len(outItems) <= 1)
  /\ [][pending # Nil => UNCHANGED <<writeCalls, connFrames>>]_vars

\* One error was forwarded; a payload and a second error that arrived after
\* it were both dropped.
C2_Witness ==
  /\ Len(outItems) = 1
  /\ wpc = "done"
  /\ \E i \in 1..Len(drained) : drained[i].Err = Nil
  /\ \E i \in 1..Len(drained) : drained[i].Err # Nil

\* C3: once the Writer has received an error envelope, it eventually has
\* forwarded exactly that error and received every envelope the producer
\* sends: no send on input stays blocked.
C3_ProducerNeverBlocked ==
  ErrTaken ~> /\ sentIdx = Len(script)
              /\ \E i \in 1..Len(taken) : taken[i].Err # Nil /\ outItems = <<taken[i].Err>>

\* An error envelope in the middle of the input; the envelopes after it were
\* consumed although the producer never closes input.
C3_Witness ==
  /\ ErrTaken
  /\ Len(taken) >= 2
  /\ Len(drained) >= 2
  /\ sentIdx = Len(script)
  /\ ~closes

\* C4: the frames on the connection are text frames carrying, in input order
\* and once each, the payloads of a prefix of the input; when the main loop
\* is over that prefix ends right before the first error envelope or the
\* first failed write (or is the whole input).
C4_FramesArePrefix ==
  LET n == Len(connFrames) IN
    /\ n <= Len(script)
    /\ \A i \in 1..n :
         /\ script[i].Err = Nil
         /\ connFrames[i] = [type |-> TextMessage, data |-> script[i].Measurement]
    /\ wpc \in {"drain", "done"} =>
         \/ n = Len(script) /\ cause = "eof"
         \/ n < Len(script) /\ script[n + 1].Err # Nil /\ outItems = <<script[n + 1].Err>>
         \/ /\ n < Len(script)
            /\ Len(writeCalls) = n + 1
            /\ writeCalls[n + 1] =
                 [type |-> TextMessage, data |-> script[n + 1].Measurement, ok |-> FALSE]
            /\ outItems = <<WriteErr>>
    /\ wpc = "done" => Len(drained) = Len(script) - Len(taken)

\* Scenario B: input [payload, payload, error, payload]; two frames written,
\* the error reported once, the trailing payload discarded.
C4_Witness ==
  /\ Len(script) = 4
  /\ script[1].Err = Nil /\ script[2].Err = Nil
  /\ script[3].Err # Nil /\ script[4].Err = Nil
  /\ wpc = "done"
  /\ Len(connFrames) = 2
  /\ outItems = <<script[3].Err>>
  /\ drained = <<script[4]>>

\* C5: a failed WriteMessage call is the last call made and ends the main
\* loop; the write error is the only item the consumer ever gets from output;
\* and the goroutine ends only after input was closed and everything sent on it
\* was received.
C5_WriteFailure ==
  \A i \in 1..Len(writeCalls) :
    ~writeCalls[i].ok =>
      /\ i = Len(writeCalls)
      /\ Len(taken) = i
      /\ wpc \in {"send", "drain", "done"}
      /\ outItems = IF wpc = "send" THEN <<>> ELSE <<WriteErr>>
      /\ Len(drained) = sentIdx - i
      /\ (wpc = "done" => AllConsumed)

\* A write failed after a successful one and the rest of input was drained.
C5_Witness ==
  /\ WriteFailure
  /\ wpc = "done"
  /\ Len(connFrames) > 0
  /\ Len(drained) > 0

\* C6: with no error envelope received and no failed write, nothing is ever
\* sent on output, and output is closed once input was closed and consumed.
C6_CleanEnd ==
  (~ErrTaken /\ ~WriteFailure) =>
    /\ outItems = <<>>
    /\ (inClosed /\ wpc = "done" => outClosed /\ taken = script)

\* Input of two or more payloads was written and closed; output is closed.
C6_Witness ==
  /\ ~ErrTaken
  /\ ~WriteFailure
  /\ Len(taken) >= 2
  /\ inClosed
  /\ outClosed

\* C7: every call the Writer makes on the connection writes a text frame,
\* and no step of the Writer changes whether the connection is open.
C7_NeverCloses ==
  /\ [](\A i \in 1..Len(writeCalls) : writeCalls[i].type = TextMessage)
  /\ [][WriterStep => connOpen' = connOpen]_vars

\* The Writer went through a write, an error and a drain; the connection is
\* still open at the end.
C7_Witness ==
  /\ wpc = "done"
  /\ Len(connFrames) > 0
  /\ Len(outItems) = 1
  /\ Len(drained) > 0
  /\ connOpen

\* C18: output is closed only after input was closed and everything sent on
\* it was received; and once the producer has closed input the goroutine
\* does close output (the consumer of output receiving a pending error).
C18_ClosesAfterInput ==
  /\ [](outClosed => AllConsumed /\ wpc = "done")
  /\ (inClosed ~> outClosed)

\* Output was closed after an error and a drain that ended with the close of
\* input.
C18_Witness ==
  /\ outClosed
  /\ inClosed
  /\ cause = "upstream"
  /\ Len(drained) = 2

\* C19: while the error waits to be handed over on output the Writer
\* receives nothing from input, so whatever the drain discarded was received
\* after the consumer got the error.
C19_DrainAfterHandOff ==
  /\ [](Len(drained) > 0 => Len(outItems) = 1)
  /\ [][wpc = "send" => UNCHANGED <<sentIdx, taken, drained>>]_vars

\* A write failed, its error is not yet handed over, and the producer
\* waits with its next envelope.
C19_Witness ==
  /\ wpc = "send"
  /\ cause = "write"
  /\ SendReady
  /\ outItems = <<>>

\* ------------------------------------------------------------------------
\* client.Client: Download and Upload
\* ------------------------------------------------------------------------

\* Most frames the peer sends during one run.
MaxFrames == 2

\* Most frames a writing stage writes during one run.
MaxWrites == 2

\* The error the dial returns when it fails.
DialErr == "eDial"

\* The error a failed or refused read yields in protocol.Reader.
ReadErr == "eRead"

\* No sink.Writer is running.
SinkIdle ==
  /\ script = <<>>
  /\ closes = FALSE
  /\ sentIdx = 0
  /\ inClosed = FALSE
  /\ wpc = "idle"
  /\ mr = NoResult
  /\ pending = Nil
  /\ cause = "none"
  /\ taken = <<>>
  /\ drained = <<>>
  /\ writeCalls = <<>>
  /\ outItems = <<>>
  /\ outClosed = FALSE
  /\ connFrames = <<>>
  /\ connOpen = TRUE

\* A Client call touches nothing of a separately run sink.Writer.
ClientFrame == UNCHANGED <<sinkVars, mainVars, jsVars>>

\* Download or Upload has just been called.
ClientInit ==
  /\ direction \in {"download", "upload"}
  /\ cpc = "dial"
  /\ dialOk = FALSE
  /\ ret = Nil
  /\ result = Nil
  /\ closeCount = 0
  /\ cconn = "none"
  /\ rpc = "idle"
  /\ framesRead = 0
  /\ dpc = "idle"
  /\ mpc = "idle"
  /\ fpc = "idle"
  /\ ferr = Nil
  /\ cfWrites = 0
  /\ lpc = "idle"
  /\ loadWrites = 0
  /\ stageErrs = {}
  /\ SinkIdle
  /\ MainIdle
  /\ JsIdle

\* A stage reports an error while the call still waits for its result.
Reported(stage) == IF cpc = "run" THEN stageErrs \cup {stage} ELSE stageErrs

\* The deferred close is registered before the error of the dial is checked.
ClientDialDeferFirst ==
  /\ cpc = "dial"
  /\ \E ok \in BOOLEAN :
       /\ dialOk' = ok
       /\ IF ok
            THEN /\ cconn' = "open"
                 /\ cpc' = "start"
                 /\ UNCHANGED <<ret, closeCount>>
            ELSE /\ ret' = DialErr
                 /\ closeCount' = closeCount + 1
                 /\ cpc' = "returned"
                 /\ UNCHANGED cconn
  /\ UNCHANGED <<direction, result, rpc, framesRead, dpc, mpc, fpc, ferr,
                 cfWrites, lpc, loadWrites, stageErrs>>
  /\ ClientFrame

\* Client.dial (l.34-55) and the check of its error (l.67-70, l.77-80).
ClientDial ==
  /\ cpc = "dial"
  /\ \E ok \in BOOLEAN :
       /\ dialOk' = ok
       /\ IF ok
            THEN /\ cconn' = "open"
                 /\ cpc' = "start"
                 /\ UNCHANGED ret
            ELSE /\ ret' = DialErr
                 /\ cpc' = "returned"
                 /\ UNCHANGED cconn
  /\ UNCHANGED <<direction, result, closeCount, rpc, framesRead, dpc, mpc, fpc, ferr,
                 cfWrites, lpc, loadWrites, stageErrs>>
  /\ ClientFrame

\* Download, l.72: protocol.Reader and protocol.Measurer start their
\* goroutines and protocol.Counterflow is entered.
DownloadStart ==
  /\ cpc = "start"
  /\ direction = "download"
  /\ rpc' = "read"
  /\ mpc' = "recv"
  /\ fpc' = "run"
  /\ cpc' = "run"
  /\ UNCHANGED <<direction, dialOk, ret, result, closeCount, cconn, framesRead, dpc,
                 ferr, cfWrites, lpc, loadWrites, stageErrs>>
  /\ ClientFrame

\* Upload, l.82-87: the discarding goroutine starts and calls
\* protocol.Reader; protocol.Writer starts the load writer.
UploadStart ==
  /\ cpc = "start"
  /\ direction = "upload"
  /\ dpc' = "range"
  /\ rpc' = "read"
  /\ lpc' = "write"
  /\ cpc' = "run"
  /\ UNCHANGED <<direction, dialOk, ret, result, closeCount, cconn, framesRead, mpc,
                 fpc, ferr, cfWrites, loadWrites, stageErrs>>
  /\ ClientFrame

\* protocol.Reader: one read on the connection. The peer sent a frame, or
\* closed the connection, or the read failed; on a closed connection a read
\* can only fail.
ReaderRead ==
  /\ rpc = "read"
  /\ \E outcome \in {"frame", "close", "error"} :
       /\ cconn = "closed" => outcome = "error"
       /\ outcome = "frame" => framesRead < MaxFrames
       /\ rpc' = CASE outcome = "frame" -> "send"
                   [] outcome = "close" -> "done"
                   [] outcome = "error" -> "sendErr"
       /\ framesRead' = IF outcome = "frame" THEN framesRead + 1 ELSE framesRead
       /\ stageErrs' = IF outcome = "error" THEN Reported("reader") ELSE stageErrs
  /\ UNCHANGED <<direction, cpc, dialOk, ret, result, closeCount, cconn, dpc, mpc, fpc,
                 ferr, cfWrites, lpc, loadWrites>>
  /\ ClientFrame

\* Upload, l.83: the discarding goroutine receives one envelope of the
\* Reader and drops it, an error envelope included.
DiscardRecv ==
  /\ dpc = "range"
  /\ rpc \in {"send", "sendErr"}
  /\ rpc' = IF rpc = "send" THEN "read" ELSE "done"
  /\ UNCHANGED <<direction, cpc, dialOk, ret, result, closeCount, cconn, framesRead,
                 dpc, mpc, fpc, ferr, cfWrites, lpc, loadWrites, stageErrs>>
  /\ ClientFrame

\* Upload, l.83-86: the Reader's channel is closed, the goroutine ends.
DiscardEof ==
  /\ dpc = "range"
  /\ rpc = "done"
  /\ dpc' = "done"
  /\ UNCHANGED <<direction, cpc, dialOk, ret, result, closeCount, cconn, rpc,
                 framesRead, mpc, fpc, ferr, cfWrites, lpc, loadWrites, stageErrs>>
  /\ ClientFrame

\* protocol.Measurer receives one envelope of the Reader: an error is
\* forwarded at once, a measurement is emitted only when the interval elapsed.
MeasurerRecv ==
  /\ mpc = "recv"
  /\ rpc \in {"send", "sendErr"}
  /\ IF rpc = "sendErr"
       THEN /\ rpc' = "done"
            /\ mpc' = "sendErr"
            /\ stageErrs' = Reported("measurer")
       ELSE /\ rpc' = "read"
            /\ \E elapsed \in BOOLEAN : mpc' = IF elapsed THEN "send" ELSE "recv"
            /\ UNCHANGED stageErrs
  /\ UNCHANGED <<direction, cpc, dialOk, ret, result, closeCount, cconn, framesRead,
                 dpc, fpc, ferr, cfWrites, lpc, loadWrites>>
  /\ ClientFrame

\* protocol.Measurer: upstream ended without error, a last measurement is
\* flushed.
MeasurerEof ==
  /\ mpc = "recv"
  /\ rpc = "done"
  /\ mpc' = "flush"
  /\ UNCHANGED <<direction, cpc, dialOk, ret, result, closeCount, cconn, rpc,
                 framesRead, dpc, fpc, ferr, cfWrites, lpc, loadWrites, stageErrs>>
  /\ ClientFrame

\* protocol.Counterflow receives one envelope of the Measurer; the first
\* error is kept as its result and the input is consumed to its end.
CounterflowRecv ==
  /\ fpc = "run"
  /\ mpc \in {"send", "sendErr", "flush"}
  /\ mpc' = IF mpc = "send" THEN "recv" ELSE "done"
  /\ ferr' = IF mpc = "sendErr" /\ ferr = Nil THEN ReadErr ELSE ferr
  /\ UNCHANGED <<direction, cpc, dialOk, ret, result, closeCount, cconn, rpc,
                 framesRead, dpc, fpc, cfWrites, lpc, loadWrites, stageErrs>>
  /\ ClientFrame

\* protocol.Counterflow writes one counter-message; a failed write is its
\* error and ends the periodic writing.
CounterflowWrite ==
  /\ fpc = "run"
  /\ ferr = Nil
  /\ \E ok \in BOOLEAN :
       /\ ok => cconn = "open" /\ cfWrites < MaxWrites
       /\ cfWrites' = IF ok THEN cfWrites + 1 ELSE cfWrites
       /\ ferr' = IF ok THEN ferr ELSE WriteErr
       /\ stageErrs' = IF ok THEN stageErrs ELSE Reported("counterflow")
  /\ UNCHANGED <<direction, cpc, dialOk, ret, result, closeCount, cconn, rpc,
                 framesRead, dpc, mpc, fpc, lpc, loadWrites>>
  /\ ClientFrame

\* protocol.Counterflow: its input ended, it returns its result.
CounterflowEof ==
  /\ fpc = "run"
  /\ mpc = "done"
  /\ fpc' = "done"
  /\ UNCHANGED <<direction, cpc, dialOk, ret, result, closeCount, cconn, rpc,
                 framesRead, dpc, mpc, ferr, cfWrites, lpc, loadWrites, stageErrs>>
  /\ ClientFrame

\* protocol.Writer: one load frame is written, or the write fails and the
\* error is to be sent on its output, or the upload is over and the output
\* is closed.
LoadWrite ==
  /\ lpc = "write"
  /\ \E outcome \in {"ok", "fail", "finish"} :
       /\ outcome = "ok" => cconn = "open" /\ loadWrites < MaxWrites
       /\ lpc' = CASE outcome = "ok" -> "write"
                   [] outcome = "fail" -> "send"
                   [] outcome = "finish" -> "done"
       /\ loadWrites' = IF outcome = "ok" THEN loadWrites + 1 ELSE loadWrites
       /\ stageErrs' = IF outcome = "fail" THEN Reported("writer") ELSE stageErrs
  /\ UNCHANGED <<direction, cpc, dialOk, ret, result, closeCount, cconn, rpc,
                 framesRead, dpc, mpc, fpc, ferr, cfWrites>>
  /\ ClientFrame

\* protocol.Writer: after its error was received, the output is closed and
\* the goroutine ends.
LoadClose ==
  /\ lpc = "close"
  /\ lpc' = "done"
  /\ UNCHANGED <<direction, cpc, dialOk, ret, result, closeCount, cconn, rpc,
                 framesRead, dpc, mpc, fpc, ferr, cfWrites, loadWrites, stageErrs>>
  /\ ClientFrame

\* Download returns nil whatever Counterflow returned.
DownloadResultDropsErr ==
  /\ cpc = "run"
  /\ direction = "download"
  /\ fpc = "done"
  /\ result' = Nil
  /\ cpc' = "closing"
  /\ UNCHANGED <<direction, dialOk, ret, closeCount, cconn, rpc, framesRead, dpc, mpc,
                 fpc, ferr, cfWrites, lpc, loadWrites, stageErrs>>
  /\ ClientFrame

\* Download, l.72: Counterflow returned, its error is the value to return.
DownloadResult ==
  /\ cpc = "run"
  /\ direction = "download"
  /\ fpc = "done"
  /\ result' = ferr
  /\ cpc' = "closing"
  /\ UNCHANGED <<direction, dialOk, ret, closeCount, cconn, rpc, framesRead, dpc, mpc,
                 fpc, ferr, cfWrites, lpc, loadWrites, stageErrs>>
  /\ ClientFrame

\* Upload, l.87: `<-protocol.Writer(conn)` receives the error of the load
\* writer, or nil from its closed output.
UploadRecv ==
  /\ cpc = "run"
  /\ direction = "upload"
  /\ lpc \in {"send", "done"}
  /\ result' = IF lpc = "send" THEN WriteErr ELSE Nil
  /\ lpc' = IF lpc = "send" THEN "close" ELSE lpc
  /\ cpc' = "closing"
  /\ UNCHANGED <<direction, dialOk, ret, closeCount, cconn, rpc, framesRead, dpc, mpc,
                 fpc, ferr, cfWrites, loadWrites, stageErrs>>
  /\ ClientFrame

\* closeandwarn (l.58-63), deferred at l.71 and l.81: the connection is
\* closed and the call returns.
CloseAndWarn ==
  /\ cpc = "closing"
  /\ closeCount' = closeCount + 1
  /\ cconn' = "closed"
  /\ ret' = result
  /\ cpc' = "returned"
  /\ UNCHANGED <<direction, dialOk, result, rpc, framesRead, dpc, mpc, fpc, ferr,
                 cfWrites, lpc, loadWrites, stageErrs>>
  /\ ClientFrame

ClientNext ==
  \/ ClientDial
  \/ DownloadStart
  \/ UploadStart
  \/ ReaderRead
  \/ DiscardRecv
  \/ DiscardEof
  \/ MeasurerRecv
  \/ MeasurerEof
  \/ CounterflowRecv
  \/ CounterflowWrite
  \/ CounterflowEof
  \/ LoadWrite
  \/ LoadClose
  \/ DownloadResult
  \/ UploadRecv
  \/ CloseAndWarn

ClientSpec == ClientInit /\ [][ClientNext]_vars

\* ------------------------------------------------------------------------
\* Properties of Client.Download and Client.Upload
\* ------------------------------------------------------------------------

\* A goroutine that was started and has not ended.
Running(pc) == pc \notin {"idle", "done"}

\* C8: when Download or Upload has returned, no goroutine started for the
\* run (Reader, discarding goroutine, Measurer, load writer) is still running.
C8_NoGoroutineOutlives ==
  cpc = "returned" =>
    ~Running(rpc) /\ ~Running(dpc) /\ ~Running(mpc) /\ ~Running(lpc) /\ ~Running(fpc)

\* C9: the connection is closed at most once; it is closed exactly when the
\* call returned after a successful dial, and then the result of the stages
\* had been obtained; after a failed dial the call returns the dial error, no
\* stage was started and no close was attempted.
C9_ClosedOnce ==
  /\ closeCount <= 1
  /\ (closeCount = 1) = (cpc = "returned" /\ dialOk)
  /\ (cconn = "closed") = (closeCount = 1)
  /\ closeCount = 1 =>
       /\ ret = result
       /\ IF direction = "download" THEN fpc = "done" ELSE lpc \in {"close", "done"}
  /\ cpc = "returned" /\ ~dialOk =>
       /\ ret = DialErr
       /\ cconn = "none"
       /\ rpc = "idle" /\ dpc = "idle" /\ mpc = "idle" /\ fpc = "idle" /\ lpc = "idle"

\* An upload whose load writer failed has returned and closed the connection.
C9_Witness ==
  /\ cpc = "returned"
  /\ dialOk
  /\ direction = "upload"
  /\ ret = WriteErr
  /\ closeCount = 1

\* C10 as stated: after a successful dial the call returns a non-nil error
\* exactly when some stage reported an error during the run.
C10_AnyStageErrorFails ==
  cpc = "returned" /\ dialOk => ((ret # Nil) = (stageErrs # {}))

\* C10, amended: Download returns a non-nil error exactly when some stage
\* reported an error during the run; Upload returns a non-nil error exactly
\* when the load writer reported one, whatever the discarded Reader reported.
C10_UploadIgnoresReader ==
  cpc = "returned" /\ dialOk =>
    IF direction = "download"
      THEN (ret # Nil) = (stageErrs # {})
      ELSE (ret # Nil) = ("writer" \in stageErrs)

\* An upload returned nil although its Reader had reported an error.
C10_Witness ==
  /\ cpc = "returned"
  /\ dialOk
  /\ direction = "upload"
  /\ "reader" \in stageErrs
  /\ ret = Nil

\* ------------------------------------------------------------------------
\* cmd/ndt7-client: realmain and runSubtest
\* ------------------------------------------------------------------------

\* Most measurement events one subtest delivers on its channel.
MaxEvents == 2

\* l.108: the code set when start() returned an error.
StartErrCode == 2

\* The deferred recover sets the code of a failed start.
PanicCodeAsStartErr == StartErrCode

\* l.101: the code set by the deferred recover.
PanicCode == 1

\* How a call of an emitter callback or of emitEvent ends: it returns, or it
\* panics before or after its event was written.
CallOutcomes == {"ok", "panicBefore", "panicAfter"}

\* The events after a callback for `key` ended with `outcome`.
Emitted(key, outcome) ==
  IF outcome = "panicBefore"
    THEN events
    ELSE Append(events, [subtest |-> subtest, key |-> key])

\* sink.Writer and the Client calls take no part in realmain.
MainFrame == UNCHANGED <<sinkVars, clientVars, jsVars>>

\* realmain was called (l.133-144): client and emitter are set up.
MainInit ==
  /\ rmpc = "callDownload"
  /\ subtest = "download"
  /\ spc = "idle"
  /\ code = 0
  /\ events = <<>>
  /\ started = <<>>
  /\ startFailed = {}
  /\ panicked = {}
  /\ runFailed = {}
  /\ delivered = 0
  /\ codes = <<>>
  /\ exitCode = Nil
  /\ SinkIdle
  /\ ClientIdle
  /\ JsIdle

\* l.145, l.119-124, l.98: download(client, emitter) enters runSubtest.
DownloadCall ==
  /\ rmpc = "callDownload"
  /\ rmpc' = "inDownload"
  /\ subtest' = "download"
  /\ spc' = "onStarting"
  /\ code' = 0
  /\ delivered' = 0
  /\ started' = Append(started, "download")
  /\ UNCHANGED <<events, startFailed, panicked, runFailed, codes, exitCode>>
  /\ MainFrame

\* realmain gives up after a failed download: upload is not called.
UploadCallUnlessFailed ==
  /\ rmpc = "callUpload"
  /\ IF codes[1] = 0
       THEN /\ rmpc' = "inUpload"
            /\ subtest' = "upload"
            /\ spc' = "onStarting"
            /\ code' = 0
            /\ delivered' = 0
            /\ started' = Append(started, "upload")
            /\ UNCHANGED exitCode
       ELSE /\ rmpc' = "returned"
            /\ exitCode' = codes[1]
            /\ UNCHANGED <<subtest, spc, code, delivered, started>>
  /\ UNCHANGED <<events, startFailed, panicked, runFailed, codes>>
  /\ MainFrame

\* l.145, l.126-131, l.98: upload(client, emitter) enters runSubtest, once
\* download returned.
UploadCall ==
  /\ rmpc = "callUpload"
  /\ rmpc' = "inUpload"
  /\ subtest' = "upload"
  /\ spc' = "onStarting"
  /\ code' = 0
  /\ delivered' = 0
  /\ started' = Append(started, "upload")
  /\ UNCHANGED <<events, startFailed, panicked, runFailed, codes, exitCode>>
  /\ MainFrame

\* l.104: emitter.onStarting(subtest); a panic is recovered at l.99-103.
OnStarting ==
  /\ spc = "onStarting"
  /\ \E outcome \in CallOutcomes :
       /\ events' = Emitted("status.measurement_start", outcome)
       /\ IF outcome = "ok"
            THEN /\ spc' = "start"
                 /\ UNCHANGED <<code, panicked>>
            ELSE /\ code' = PanicCode
                 /\ panicked' = panicked \cup {subtest}
                 /\ spc' = "returned"
  /\ UNCHANGED <<rmpc, subtest, started, startFailed, runFailed, delivered, codes,
                 exitCode>>
  /\ MainFrame

\* The error of start() is not checked.
StartIgnoresErr ==
  /\ spc = "start"
  /\ \E outcome \in {"chan", "err", "panic"} :
       /\ startFailed' = IF outcome = "err" THEN startFailed \cup {subtest}
                                            ELSE startFailed
       /\ IF outcome = "panic"
            THEN /\ code' = PanicCode
                 /\ panicked' = panicked \cup {subtest}
                 /\ spc' = "returned"
            ELSE /\ spc' = "onConnected"
                 /\ UNCHANGED <<code, panicked>>
  /\ UNCHANGED <<rmpc, subtest, events, started, runFailed, delivered, codes, exitCode>>
  /\ MainFrame

\* l.105-106: ch, err := start(); it yields a channel, or an error, or it
\* panics.
Start ==
  /\ spc = "start"
  /\ \E outcome \in {"chan", "err", "panic"} :
       /\ startFailed' = IF outcome = "err" THEN startFailed \cup {subtest}
                                            ELSE startFailed
       /\ IF outcome = "panic"
            THEN /\ code' = PanicCode
                 /\ panicked' = panicked \cup {subtest}
                 /\ spc' = "returned"
            ELSE /\ spc' = IF outcome = "err" THEN "onError" ELSE "onConnected"
                 /\ UNCHANGED <<code, panicked>>
  /\ UNCHANGED <<rmpc, subtest, events, started, runFailed, delivered, codes, exitCode>>
  /\ MainFrame

\* l.107-109: emitter.onError(subtest, err); code = 2; return.
OnError ==
  /\ spc = "onError"
  /\ \E outcome \in CallOutcomes :
       /\ events' = Emitted("failure.measurement", outcome)
       /\ IF outcome = "ok"
            THEN /\ code' = StartErrCode
                 /\ UNCHANGED panicked
            ELSE /\ code' = PanicCode
                 /\ panicked' = panicked \cup {subtest}
       /\ spc' = "returned"
  /\ UNCHANGED <<rmpc, subtest, started, startFailed, runFailed, delivered, codes,
                 exitCode>>
  /\ MainFrame

\* l.111: emitter.onConnected(subtest, client.FQDN).
OnConnected ==
  /\ spc = "onConnected"
  /\ \E outcome \in CallOutcomes :
       /\ events' = Emitted("status.measurement_begin", outcome)
       /\ IF outcome = "ok"
            THEN /\ spc' = "loop"
                 /\ UNCHANGED <<code, panicked>>
            ELSE /\ code' = PanicCode
                 /\ panicked' = panicked \cup {subtest}
                 /\ spc' = "returned"
  /\ UNCHANGED <<rmpc, subtest, started, startFailed, runFailed, delivered, codes,
                 exitCode>>
  /\ MainFrame

\* l.112-114: one event is received from ch and passed to emitEvent.
LoopRecv ==
  /\ spc = "loop"
  /\ delivered < MaxEvents
  /\ delivered' = delivered + 1
  /\ \E outcome \in CallOutcomes :
       /\ events' = Emitted("measurement", outcome)
       /\ IF outcome = "ok"
            THEN UNCHANGED <<spc, code, panicked>>
            ELSE /\ code' = PanicCode
                 /\ panicked' = panicked \cup {subtest}
                 /\ spc' = "returned"
  /\ UNCHANGED <<rmpc, subtest, started, startFailed, runFailed, codes, exitCode>>
  /\ MainFrame

\* l.112: ch is closed and the loop ends; the channel carries measurements
\* only, so it is closed the same way when the run ended with an error.
LoopEnd ==
  /\ spc = "loop"
  /\ \E failed \in BOOLEAN :
       runFailed' = IF failed THEN runFailed \cup {subtest} ELSE runFailed
  /\ spc' = "onComplete"
  /\ UNCHANGED <<rmpc, subtest, code, events, started, startFailed, panicked, delivered,
                 codes, exitCode>>
  /\ MainFrame

\* l.115-116: emitter.onComplete(subtest); return.
OnComplete ==
  /\ spc = "onComplete"
  /\ \E outcome \in CallOutcomes :
       /\ events' = Emitted("status.measurement_done", outcome)
       /\ IF outcome = "ok"
            THEN UNCHANGED <<code, panicked>>
            ELSE /\ code' = PanicCode
                 /\ panicked' = panicked \cup {subtest}
  /\ spc' = "returned"
  /\ UNCHANGED <<rmpc, subtest, started, startFailed, runFailed, delivered, codes,
                 exitCode>>
  /\ MainFrame

\* l.97, l.120, l.127: runSubtest hands its code to realmain.
SubtestReturn ==
  /\ spc = "returned"
  /\ rmpc \in {"inDownload", "inUpload"}
  /\ codes' = Append(codes, code)
  /\ rmpc' = IF rmpc = "inDownload" THEN "callUpload" ELSE "sum"
  /\ spc' = "idle"
  /\ UNCHANGED <<subtest, code, events, started, startFailed, panicked, runFailed,
                 delivered, exitCode>>
  /\ MainFrame

\* l.145: return download(client, emitter) + upload(client, emitter).
RealmainReturn ==
  /\ rmpc = "sum"
  /\ exitCode' = codes[1] + codes[2]
  /\ rmpc' = "returned"
  /\ UNCHANGED <<subtest, spc, code, events, started, startFailed, panicked, runFailed,
                 delivered, codes>>
  /\ MainFrame

MainNext ==
  \/ DownloadCall
  \/ UploadCall
  \/ OnStarting
  \/ Start
  \/ OnError
  \/ OnConnected
  \/ LoopRecv
  \/ LoopEnd
  \/ OnComplete
  \/ SubtestReturn
  \/ RealmainReturn

MainSpec == MainInit /\ [][MainNext]_vars

\* realmain is one goroutine: it takes its next step whenever it has one (the
\* channel of a subtest is closed after finitely many events).
MainFairSpec == MainSpec /\ WF_vars(MainNext)

\* ------------------------------------------------------------------------
\* Properties of realmain and runSubtest
\* ------------------------------------------------------------------------

Subtests == <<"download", "upload">>

\* The events emitted for subtest st, in order.
SubEvents(st) == SelectSeq(events, LAMBDA e : e.subtest = st)

\* runSubtest has returned for the i-th subtest.
Finished(i) == Len(codes) >= i

\* Exit codes realmain can produce when no subtest panicked: each subtest
\* returns 0 or the code of a failed start.
NoPanicExits == {a + b : a, b \in {0, StartErrCode}}

\* C11: when runSubtest has returned, the last event of the subtest is
\* status.measurement_done, and a failure.measurement event is directly
\* followed by it.
C11_DoneIsLast ==
  \A i \in 1..2 :
    Finished(i) =>
      LET ev == SubEvents(Subtests[i]) IN
        /\ Len(ev) > 0
        /\ ev[Len(ev)].key = "status.measurement_done"
        /\ \A k \in 1..Len(ev) :
             ev[k].key = "failure.measurement" =>
               k < Len(ev) /\ ev[k + 1].key = "status.measurement_done"

\* C12: the events of a subtest start with status.measurement_start, which
\* occurs once; failure.measurement and status.measurement_begin never both
\* occur; a measurement event has status.measurement_begin before it and no
\* status.measurement_done before it; a subtest whose start failed has no
\* measurement event.
C12_EventOrder ==
  \A i \in 1..2 :
    LET ev == SubEvents(Subtests[i])
        Has(key) == \E k \in 1..Len(ev) : ev[k].key = key
    IN
      /\ Len(ev) > 0 => ev[1].key = "status.measurement_start"
      /\ \A k \in 2..Len(ev) : ev[k].key # "status.measurement_start"
      /\ ~(Has("failure.measurement") /\ Has("status.measurement_begin"))
      /\ \A k \in 1..Len(ev) :
           ev[k].key = "measurement" =>
             /\ \E j \in 1..(k - 1) : ev[j].key = "status.measurement_begin"
             /\ \A j \in 1..(k - 1) : ev[j].key # "status.measurement_done"
      /\ Subtests[i] \in startFailed => ~Has("measurement")

\* The download emitted start, begin, two measurements and done; the start
\* of the upload failed and it emitted start and failure.
C12_Witness ==
  /\ Finished(2)
  /\ Len(SubEvents("download")) = 5
  /\ SubEvents("download")[4].key = "measurement"
  /\ SubEvents("download")[5].key = "status.measurement_done"
  /\ "upload" \in startFailed
  /\ Len(SubEvents("upload")) = 2

\* C13: upload is started after download returned, whatever download
\* returned; when realmain returns both were started, download first; and
\* every execution does start both.
C13_BothStarted ==
  /\ [](Len(started) = 2 => started = Subtests /\ Finished(1))
  /\ [](rmpc = "returned" => started = Subtests)
  /\ <>(started = Subtests)

\* The download could not start and the upload was started all the same.
C13_Witness ==
  /\ "download" \in startFailed
  /\ codes = <<StartErrCode>>
  /\ started = Subtests
  /\ spc = "onStarting"

\* C14: realmain returns zero exactly when both subtests succeeded: no start
\* failed, no panic was recovered and no run ended with an error.
C14_ExitZeroIffSuccess ==
  rmpc = "returned" =>
    ((exitCode = 0) = (startFailed \cup panicked \cup runFailed = {}))

\* C15: the exit code of a run in which a subtest panicked is not the exit
\* code of any run without a panic.
C15_PanicDistinguishable ==
  rmpc = "returned" /\ panicked # {} => exitCode \notin NoPanicExits

\* C20 as stated: code 2 exactly when start() returned an error, code 1
\* exactly when a panic was recovered, code 0 otherwise.
C20_CodeByCause ==
  \A i \in 1..Len(codes) :
    /\ (codes[i] = 2) = (Subtests[i] \in startFailed)
    /\ (codes[i] = 1) = (Subtests[i] \in panicked)
    /\ (codes[i] = 0) = (Subtests[i] \notin startFailed \cup panicked)

\* C20, amended: code 1 exactly when a panic was recovered, code 2 exactly
\* when start() returned an error and no panic followed, code 0 otherwise; a
\* panic always ends in the return of a code.
C20_PanicCodeWins ==
  /\ \A i \in 1..Len(codes) :
       /\ (codes[i] = 1) = (Subtests[i] \in panicked)
       /\ (codes[i] = 2) = (Subtests[i] \in startFailed \ panicked)
       /\ (codes[i] = 0) = (Subtests[i] \notin startFailed \cup panicked)
  /\ rmpc \in {"inDownload", "inUpload"} /\ subtest \in panicked =>
       spc = "returned" /\ code = 1

\* start() returned an error, onError panicked, and the code is 1.
C20_Witness ==
  /\ Finished(1)
  /\ "download" \in startFailed
  /\ "download" \in panicked
  /\ codes[1] = 1

\* ------------------------------------------------------------------------
\* web/libndt7.js: measure
\* ------------------------------------------------------------------------

\* Most messages delivered to the handler.
MaxMsgs == 3

\* The clock readings are multiples of ClockStep up to MaxTicks * ClockStep.
MaxTicks == 6

\* Granularity of the clock readings (ms); it divides the interval, so that
\* a reading exactly one interval after tlast occurs.
ClockStep == 125

\* l.103: const every = 250 (millisecond).
Every == 250

\* Values `new Date().getTime()` can return; the wall clock is not
\* monotonic, so any reading can follow any other.
Times == {k * ClockStep : k \in 0..MaxTicks}

\* Inbound messages: a Blob of some size, a text that is valid JSON, a text
\* that JSON.parse rejects.
Messages ==
  {[kind |-> "blob", size |-> 0], [kind |-> "blob", size |-> 2],
   [kind |-> "text", size |-> 1], [kind |-> "badtext", size |-> 1]}

\* The interval test admits a reading exactly `every` after tlast.
IntervalElapsedInclusive(t1, tlast) == t1 - tlast >= Every

\* l.104: t1 - tlast > every.
IntervalElapsed(t1, tlast) == t1 - tlast > Every

\* tlast is never advanced.
NextTlastStale(emit, t1, tlast) == tlast

\* l.111: tlast = t1, inside the branch that emits.
NextTlast(emit, t1, tlast) == IF emit THEN t1 ELSE tlast

\* l.106: elapsed: (t1 - t0) / 1000, kept as the fraction <<numerator,
\* denominator>> of seconds.
ElapsedSeconds(t1, t0) == <<t1 - t0, 1000>>

\* a / b < c / d for fractions with positive denominators.
FracLess(x, y) == x[1] * y[2] < y[1] * x[2]

\* sink.Writer, the Client calls and realmain take no part in measure.
JsFrame == UNCHANGED <<sinkVars, clientVars, mainVars>>

\* measure was called (l.91-95): count = 0, t0 read, tlast = t0, handler set.
JsInit ==
  /\ jsT0 \in Times
  /\ jsTlast = jsT0
  /\ jsCount = 0
  /\ jsMsgs = 0
  /\ jsServer = 0
  /\ jsReads = <<>>
  /\ jsClient = <<>>
  /\ SinkIdle
  /\ ClientIdle
  /\ MainIdle

\* l.95-113: socket.onmessage for one message. JSON.parse throws on a text
\* that is not JSON, which ends the handler before it touches count.
OnMessage ==
  /\ jsMsgs < MaxMsgs
  /\ \E msg \in Messages, t1 \in Times :
       /\ jsMsgs' = jsMsgs + 1
       /\ IF msg.kind = "badtext"
            THEN UNCHANGED <<jsCount, jsServer, jsReads, jsTlast, jsClient>>
            ELSE LET count == jsCount + msg.size
                     emit == IntervalElapsed(t1, jsTlast)
                 IN  /\ jsCount' = count
                     /\ jsServer' = IF msg.kind = "text" THEN jsServer + 1 ELSE jsServer
                     /\ jsReads' = Append(jsReads, t1)
                     /\ jsClient' =
                          IF emit
                            THEN Append(jsClient, [elapsed |-> ElapsedSeconds(t1, jsT0),
                                                   num_bytes |-> count,
                                                   at |-> t1])
                            ELSE jsClient
                     /\ jsTlast' = NextTlast(emit, t1, jsTlast)
  /\ UNCHANGED jsT0
  /\ JsFrame

JsNext == OnMessage

JsSpec == JsInit /\ [][JsNext]_vars

\* C16: the first clientMeasurement comes more than 250 ms after t0, two
\* consecutive ones are more than 250 ms apart, so any j - i + 1 of them
\* span more than (j - i) * 250 ms; and there are no more of them than
\* messages handled.
C16_ThrottledEmission ==
  /\ Len(jsClient) > 0 => jsClient[1].at - jsT0 > 250
  /\ \A i \in 2..Len(jsClient) : jsClient[i].at - jsClient[i - 1].at > 250
  /\ \A i, j \in 1..Len(jsClient) :
       i < j => jsClient[j].at - jsClient[i].at > (j - i) * 250
  /\ Len(jsClient) <= jsMsgs

\* Two measurements were emitted although three messages were handled, one
\* of them too early to be reported.
C16_Witness ==
  /\ Len(jsClient) = 2
  /\ jsMsgs = 3
  /\ jsCount > jsClient[2].num_bytes

\* C17: over the clientMeasurement events elapsed is strictly increasing and
\* num_bytes is non-decreasing.
C17_Monotonic ==
  \A i \in 2..Len(jsClient) :
    /\ FracLess(jsClient[i - 1].elapsed, jsClient[i].elapsed)
    /\ jsClient[i - 1].num_bytes <= jsClient[i].num_bytes

\* Two measurements with growing byte counts were emitted, and between them
\* the handler read a clock that had gone backwards.
C17_Witness ==
  /\ Len(jsClient) = 2
  /\ Len(jsReads) = 3
  /\ jsReads[2] < jsReads[1]
  /\ jsClient[1].at = jsReads[1]
  /\ jsClient[2].at = jsReads[3]
  /\ jsClient[1].num_bytes < jsClient[2].num_bytes

====
